---- MODULE Spec2Model ----
(***************************************************************************)
(* A model of make.py, the report compiler of pyscine: the line scanner    *)
(* (Document.parse, Section.parse and the directive parsers with their     *)
(* shared parse_gen / parse_attr), the data-reference resolver             *)
(* (Document.get_data, Document.replace_data, arr2str) and the rendering   *)
(* of the element tree.                                                    *)
(*                                                                         *)
(* Python strings are TLA+ strings; the str and re operations the code     *)
(* uses are the operators of the first section, computed character by      *)
(* character.  A file is the sequence of its lines, each ending in "\n".   *)
(***************************************************************************)
EXTENDS Integers, Sequences, FiniteSets, TLC

VARIABLES
    stream,     \* the lines of the report file f
    pos,        \* index in stream of the line f.readline() returned last; Len(stream) + 1 once it returned ""
    line,       \* the local `line` of the parser that is running
    pc,         \* which loop is running: main, doc, section, directive, done, saved, error, ...
    err,        \* the exception that ended the run ("" when none)
    prelude,    \* Document.parse's local `prelude`
    accordion,  \* doc.accordion
    template,   \* doc.template
    content,    \* doc.content: the sections appended so far
    cur,        \* the Section whose parse is running
    dcls,       \* the class whose parse is running ("" when none)
    attrs,      \* that parse's local `attrs`
    body,       \* that parse's accumulator (lines, text, items, src_types, names_and_src)
    src,        \* that parse's local `src` (Image, Audio, Pyplot) or `elt_id` (Plotly)
    marker,     \* history: index in stream of the marker line of the directive being parsed
    js,         \* doc.js
    clock,      \* what time.time() returned last, in units of 1/10000 s
    data,       \* doc.data
    html,       \* what Document.save wrote: the rendered content and the joined script
    arr,        \* what Document.get_data returned
    new_line    \* what Document.replace_data returned

vars == <<stream, pos, line, pc, err, prelude, accordion, template, content, cur,
          dcls, attrs, body, src, marker, js, clock, data, html, arr, new_line>>

(***************************************************************************)
(* str operations                                                          *)
(***************************************************************************)
CharAt(s, i) == SubSeq(s, i, i)

Drop(s, n) == SubSeq(s, n + 1, Len(s))

\* s.startswith(p)
StartsWith(s, p) == Len(s) >= Len(p) /\ SubSeq(s, 1, Len(p)) = p

\* s.replace(old, new), old not empty: every occurrence, left to right, without overlap
RECURSIVE Replace(_, _, _)
Replace(s, old, new) ==
    IF Len(s) < Len(old) THEN s
    ELSE IF StartsWith(s, old) THEN new \o Replace(Drop(s, Len(old)), old, new)
    ELSE CharAt(s, 1) \o Replace(Drop(s, 1), old, new)

\* the characters str.strip() and str.split() treat as white space
Whitespace == {" ", "\n", "\t", "\r", "\f"}

RECURSIVE LStrip(_)
LStrip(s) ==
    IF Len(s) > 0 /\ CharAt(s, 1) \in Whitespace THEN LStrip(Drop(s, 1)) ELSE s

RECURSIVE RStrip(_)
RStrip(s) ==
    IF Len(s) > 0 /\ CharAt(s, Len(s)) \in Whitespace
    THEN RStrip(SubSeq(s, 1, Len(s) - 1)) ELSE s

\* s.strip()
Strip(s) == LStrip(RStrip(s))

UpperCase == "ABCDEFGHIJKLMNOPQRSTUVWXYZ"
LowerCase == "abcdefghijklmnopqrstuvwxyz"
Digits == "0123456789"

\* the index of character c in string s, 0 when it is not there
IndexIn(s, c) ==
    IF \E i \in 1..Len(s) : CharAt(s, i) = c
    THEN CHOOSE i \in 1..Len(s) : CharAt(s, i) = c
    ELSE 0

\* s.lower()
RECURSIVE Lower(_)
Lower(s) ==
    IF Len(s) = 0 THEN s
    ELSE LET c == CharAt(s, 1)
             i == IndexIn(UpperCase, c)
         IN (IF i > 0 THEN CharAt(LowerCase, i) ELSE c) \o Lower(Drop(s, 1))

\* the length of the longest prefix of s without the character c
RECURSIVE RunUntil(_, _)
RunUntil(s, c) ==
    IF Len(s) = 0 \/ CharAt(s, 1) = c THEN 0 ELSE 1 + RunUntil(Drop(s, 1), c)

\* s.split(sep), sep not empty
RECURSIVE SplitOn(_, _)
SplitOn(s, sep) ==
    IF \E i \in 1..Len(s) : StartsWith(Drop(s, i - 1), sep)
    THEN LET i == CHOOSE i \in 1..Len(s) :
                      /\ StartsWith(Drop(s, i - 1), sep)
                      /\ \A j \in 1..(i - 1) : ~StartsWith(Drop(s, j - 1), sep)
         IN <<SubSeq(s, 1, i - 1)>> \o SplitOn(Drop(s, i - 1 + Len(sep)), sep)
    ELSE <<s>>

\* the length of the longest prefix of s without white space
RECURSIVE WordLen(_)
WordLen(s) ==
    IF Len(s) = 0 \/ CharAt(s, 1) \in Whitespace THEN 0 ELSE 1 + WordLen(Drop(s, 1))

\* s.split(): the runs of characters that are not white space
RECURSIVE Split(_)
Split(s) ==
    LET t == LStrip(s)
    IN IF Len(t) = 0 THEN <<>>
       ELSE <<SubSeq(t, 1, WordLen(t))>> \o Split(Drop(t, WordLen(t)))

\* sep.join(parts)
RECURSIVE Join(_, _)
Join(parts, sep) ==
    IF Len(parts) = 0 THEN ""
    ELSE IF Len(parts) = 1 THEN parts[1]
    ELSE parts[1] \o sep \o Join(Tail(parts), sep)

\* str(n) of an integer
RECURSIVE NatToStr(_)
NatToStr(n) ==
    IF n < 10 THEN CharAt(Digits, n + 1)
    ELSE NatToStr(n \div 10) \o CharAt(Digits, (n % 10) + 1)

IntToStr(n) == IF n < 0 THEN "-" \o NatToStr(0 - n) ELSE NatToStr(n)

\* "{:03d}".format(n), n >= 0
Format03d(n) ==
    LET s == NatToStr(n)
    IN IF Len(s) >= 3 THEN s ELSE SubSeq("000", 1, 3 - Len(s)) \o s

(***************************************************************************)
(* numpy arrays: [shape |-> the dimensions, v |-> a scalar, or the         *)
(* sequence of the sub-arrays along the first axis].  A call returns       *)
(* [exc |-> the exception it raised or "", val |-> the value it returned]; *)
(* a value computed once and used several times is handed on as the        *)
(* parameter of the next definition, as the code holds it in a local.      *)
(***************************************************************************)
None == <<>>
Some(x) == <<x>>

Ok(v) == [exc |-> "", val |-> v]
Raise(e) == [exc |-> e, val |-> None]

Scalar(n) == [shape |-> <<>>, v |-> n]
Array1(xs) == [shape |-> <<Len(xs)>>, v |-> xs]
Array2(rows, ncols) == [shape |-> <<Len(rows), ncols>>, v |-> rows]

\* a[i]: one integer index along the first axis, negative indices counted from the end
ArrIndex(a, i) ==
    IF Len(a.shape) = 0 THEN Raise("IndexError")
    ELSE IF i < 0 - a.shape[1] \/ i >= a.shape[1] THEN Raise("IndexError")
    ELSE Ok([shape |-> Tail(a.shape),
             v |-> a.v[(IF i < 0 THEN i + a.shape[1] ELSE i) + 1]])

\* a bound of a slice over n elements, brought into range as slicing does
AdjustIndex(i, n, step) ==
    IF i < 0
    THEN (IF i + n < 0 THEN (IF step < 0 THEN 0 - 1 ELSE 0) ELSE i + n)
    ELSE (IF i >= n THEN (IF step < 0 THEN n - 1 ELSE n) ELSE i)

SliceStart(n, start, step) ==
    IF start = None THEN (IF step < 0 THEN n - 1 ELSE 0)
    ELSE AdjustIndex(start[1], n, step)

SliceStop(n, stop, step) ==
    IF stop = None THEN (IF step < 0 THEN 0 - 1 ELSE n)
    ELSE AdjustIndex(stop[1], n, step)

SliceLength(lo, hi, step) ==
    IF step < 0
    THEN (IF hi < lo THEN ((lo - hi - 1) \div (0 - step)) + 1 ELSE 0)
    ELSE (IF lo < hi THEN ((hi - lo - 1) \div step) + 1 ELSE 0)

\* the len elements of a from index lo on, step apart
Take(a, lo, step, len) ==
    Ok([shape |-> <<len>> \o Tail(a.shape),
        v |-> [k \in 1..len |-> a.v[lo + (k - 1) * step + 1]]])

TakeBetween(a, lo, hi, step) == Take(a, lo, step, SliceLength(lo, hi, step))

\* a[start:stop:step] along the first axis; start, stop, step are None or Some(integer)
ArrSlice(a, start, stop, step) ==
    IF Len(a.shape) = 0 THEN Raise("IndexError")
    ELSE IF step = Some(0) THEN Raise("ValueError")
    ELSE IF step = None
    THEN TakeBetween(a, SliceStart(a.shape[1], start, 1), SliceStop(a.shape[1], stop, 1), 1)
    ELSE TakeBetween(a, SliceStart(a.shape[1], start, step[1]),
                     SliceStop(a.shape[1], stop, step[1]), step[1])

\* int(s): white space around, an optional sign, digits with single underscores between them
RECURSIVE DigitsValue(_, _)
DigitsValue(s, acc) ==
    IF Len(s) = 0 THEN acc
    ELSE IF CharAt(s, 1) = "_" THEN DigitsValue(Drop(s, 1), acc)
    ELSE DigitsValue(Drop(s, 1), 10 * acc + IndexIn(Digits, CharAt(s, 1)) - 1)

ValidDigits(u) ==
    /\ Len(u) > 0
    /\ \A i \in 1..Len(u) : IndexIn(Digits, CharAt(u, i)) > 0 \/ CharAt(u, i) = "_"
    /\ CharAt(u, 1) # "_" /\ CharAt(u, Len(u)) # "_"
    /\ \A i \in 1..(Len(u) - 1) : ~(CharAt(u, i) = "_" /\ CharAt(u, i + 1) = "_")

SignedInt(sign, u) ==
    IF ~ValidDigits(u) THEN Raise("ValueError")
    ELSE Ok(IF sign = "-" THEN 0 - DigitsValue(u, 0) ELSE DigitsValue(u, 0))

StrippedInt(t) ==
    IF Len(t) > 0 /\ CharAt(t, 1) \in {"-", "+"}
    THEN SignedInt(CharAt(t, 1), Drop(t, 1))
    ELSE SignedInt("+", t)

ParseInt(s) == StrippedInt(Strip(s))

\* str(x) of every element
StrEach(xs) == [i \in 1..Len(xs) |-> IntToStr(xs[i])]

\* arr2str of an array of two dimensions or more loops over its sub-arrays, which
\* have one dimension or more: none of the inner calls raises
RECURSIVE Arr2StrVal(_)
Arr2StrVal(a) ==
    IF Len(a.shape) = 1 THEN "[" \o Join(StrEach(a.v), ", ") \o "]"
    ELSE "[" \o Join([i \in 1..Len(a.v) |->
                         Arr2StrVal([shape |-> Tail(a.shape), v |-> a.v[i]])], ", ") \o "]"

arr2str(a) ==
    IF Len(a.shape) = 0 THEN Raise("TypeError")    \* `for x in arr` over a scalar
    ELSE Ok(Arr2StrVal(a))

(***************************************************************************)
(* Document.get_data and Document.replace_data                             *)
(***************************************************************************)
\* re.match(r"([^\[\s]+)...", s): the length of group 1
RECURSIVE NameLen(_)
NameLen(s) ==
    IF Len(s) = 0 \/ CharAt(s, 1) = "[" \/ CharAt(s, 1) \in Whitespace THEN 0
    ELSE 1 + NameLen(Drop(s, 1))

\* re.findall(r"\[([^\]]+)\]", s); n is the length of the run without "]" after s[0]
RECURSIVE FindRngs(_)
RECURSIVE FindRngsAt(_, _)
FindRngsAt(s, n) ==
    IF CharAt(s, 1) = "[" /\ n >= 1 /\ n + 1 < Len(s)
    THEN <<SubSeq(s, 2, n + 1)>> \o FindRngs(Drop(s, n + 2))
    ELSE FindRngs(Drop(s, 1))

FindRngs(s) ==
    IF Len(s) = 0 THEN <<>> ELSE FindRngsAt(s, RunUntil(Drop(s, 1), "]"))

\* arr[i] for i the outcome of int(...)
IndexAt(a, i) == IF i.exc # "" THEN i ELSE ArrIndex(a, i.val)

\* arr[int(rng)]
IndexOp(a, rng) == IndexAt(a, ParseInt(rng))

\* int(field) of a bound that is given: Some of the integer; an absent bound: None
SomeInt(i) == IF i.exc # "" THEN i ELSE Ok(Some(i.val))

Bound(field) == IF field = None THEN Ok(None) ELSE SomeInt(ParseInt(field[1]))

SliceAt(a, start, stop, step) ==
    IF start.exc # "" THEN start
    ELSE IF stop.exc # "" THEN stop
    ELSE IF step.exc # "" THEN step
    ELSE ArrSlice(a, start.val, stop.val, step.val)

\* arr[int(p) : int(q) : int(r)], a field given as None standing for an absent bound
SliceOp(a, p, q, r) == SliceAt(a, Bound(p), Bound(q), Bound(r))

\* that branch as it would be if it left out the step of [:b:s]
EmptyStartOpStepDropped(a, _slice) ==
    IF _slice[2] = ""
    THEN (IF Len(_slice) > 2
          THEN SliceOp(a, None, None, Some(_slice[3]))
          ELSE Raise("RuntimeError"))
    ELSE SliceOp(a, None, Some(_slice[2]), None)

\* the branch of get_data for a rng whose start field is empty
EmptyStartOp(a, _slice) ==
    IF _slice[2] = ""
    THEN (IF Len(_slice) > 2
          THEN SliceOp(a, None, None, Some(_slice[3]))
          ELSE Raise("RuntimeError"))
    ELSE (IF Len(_slice) > 2
          THEN SliceOp(a, None, Some(_slice[2]), Some(_slice[3]))
          ELSE SliceOp(a, None, Some(_slice[2]), None))

\* the branch of get_data for a rng whose start field is not empty: `len(slice)`
\* is taken of the builtin type slice, not of _slice, and raises
GivenStartOp(a, _slice) ==
    IF Len(_slice) = 1 THEN IndexOp(a, _slice[1])
    ELSE Raise("TypeError")

\* the branches of get_data for a rng with ":", _slice = rng.split(":")
SliceBranch(a, _slice) ==
    IF _slice[1] = "" THEN EmptyStartOp(a, _slice) ELSE GivenStartOp(a, _slice)

\* one pass of the loop `for rng in rngs`
ApplyRng(a, rng) ==
    IF \A i \in 1..Len(rng) : CharAt(rng, i) # ":"
    THEN IndexOp(a, rng)
    ELSE SliceBranch(a, SplitOn(rng, ":"))

\* the loop `for rng in rngs`; r is the outcome of the pass before
RECURSIVE ApplyRngs(_, _)
RECURSIVE ApplyRest(_, _)
ApplyRest(r, rngs) == IF r.exc # "" THEN r ELSE ApplyRngs(r.val, rngs)

ApplyRngs(a, rngs) ==
    IF Len(rngs) = 0 THEN Ok(a) ELSE ApplyRest(ApplyRng(a, rngs[1]), Tail(rngs))

\* the end of get_data: arr2str(arr) or arr
Returned(r, to_str) ==
    IF r.exc # "" THEN r ELSE IF to_str THEN arr2str(r.val) ELSE r

\* get_data from the look-up on: group1 and group2 are the groups of the match
LookUp(tbl, group1, group2, to_str) ==
    IF group1 \notin DOMAIN tbl THEN Raise("ValueError")
    ELSE IF group2 = "" THEN Returned(Ok(tbl[group1]), to_str)
    ELSE Returned(ApplyRngs(tbl[group1], FindRngs(group2)), to_str)

\* get_data from re.match(r"([^\[\s]+)([^\s]*)", s) on; n is the length of group 1
Matched(tbl, s, n, to_str) ==
    IF n = 0 THEN Raise("ValueError")
    ELSE LookUp(tbl, SubSeq(s, 1, n), SubSeq(s, n + 1, n + WordLen(Drop(s, n))), to_str)

Match(tbl, s, to_str) == Matched(tbl, s, NameLen(s), to_str)

\* doc.get_data(idstr, to_str) for doc.data = d: [none |-> whether it is None, tbl |-> the table]
get_data(d, idstr, to_str) ==
    IF d.none THEN Raise("ValueError")
    ELSE IF ~StartsWith(idstr, "@data.") THEN Raise("AssertionError")
    ELSE Match(d.tbl, Replace(idstr, "@data.", ""), to_str)

\* the characters of the class [a-zA-Z-_\[\]\d:]
RefChars ==
    {CharAt(LowerCase, i) : i \in 1..Len(LowerCase)} \cup
    {CharAt(UpperCase, i) : i \in 1..Len(UpperCase)} \cup
    {CharAt(Digits, i) : i \in 1..Len(Digits)} \cup {"-", "_", "[", "]", ":"}

RECURSIVE RefLen(_)
RefLen(s) ==
    IF Len(s) = 0 \/ CharAt(s, 1) \notin RefChars THEN 0 ELSE 1 + RefLen(Drop(s, 1))

\* re.findall(r"@data\.[a-zA-Z-_\[\]\d:]+", line); n is the length of the run of
\* characters of the class after the first six of s
RECURSIVE FindRefs(_)
RECURSIVE FindRefsAt(_, _)
FindRefsAt(s, n) ==
    IF StartsWith(s, "@data.") /\ n >= 1
    THEN <<SubSeq(s, 1, 6 + n)>> \o FindRefs(Drop(s, 6 + n))
    ELSE FindRefs(Drop(s, 1))

FindRefs(s) ==
    IF Len(s) = 0 THEN <<>> ELSE FindRefsAt(s, RefLen(Drop(s, 6)))

\* the loop of replace_data; g is the outcome of get_data(x, to_str=True)
RECURSIVE ReplaceEach(_, _, _)
RECURSIVE Replaced(_, _, _, _)
\* the loop as it would be if a reference that cannot be resolved were left in the line
ReplacedWhereResolved(d, refs, ln, g) ==
    IF g.exc # "" THEN ReplaceEach(d, Tail(refs), ln)
    ELSE ReplaceEach(d, Tail(refs), Replace(ln, refs[1], g.val))

Replaced(d, refs, ln, g) ==
    IF g.exc # "" THEN g ELSE ReplaceEach(d, Tail(refs), Replace(ln, refs[1], g.val))

ReplaceEach(d, refs, ln) ==
    IF Len(refs) = 0 THEN Ok(ln) ELSE Replaced(d, refs, ln, get_data(d, refs[1], TRUE))

\* doc.replace_data(line) for doc.data = d
replace_data(d, ln) == ReplaceEach(d, FindRefs(ln), ln)

(***************************************************************************)
(* The directive classes: REGISTER, ATTRIBUTES, parse_attr, parse_gen      *)
(***************************************************************************)
REGISTER ==
    [k \in {"fst-list", "svg-list", "image", "audio", "video", "paragraph", "code",
            "alert", "list", "html", "javascript", "python", "pyplot", "plotly"} |->
        CASE k \in {"fst-list", "svg-list"} -> "SvgList"
          [] k = "image" -> "Image"
          [] k = "audio" -> "Audio"
          [] k = "video" -> "Video"
          [] k = "paragraph" -> "Paragraph"
          [] k = "code" -> "CodeSnippet"
          [] k = "alert" -> "Alert"
          [] k = "list" -> "List"
          [] k = "html" -> "Html"
          [] k = "javascript" -> "Javascript"
          [] k = "python" -> "Python"
          [] k = "pyplot" -> "Pyplot"
          [] k = "plotly" -> "Plotly"]

\* cls.ATTRIBUTES; kind is the type of the default, which parse_attr tests with isinstance
\* (no class declares a float or an int default)
ATTRIBUTES(cls) ==
    CASE cls = "Python" -> <<[name |-> "print", kind |-> "str", default |-> "result"]>>
      [] cls = "Alert" -> <<[name |-> "type", kind |-> "str", default |-> "secondary"]>>
      [] cls = "CodeSnippet" -> <<[name |-> "type", kind |-> "str", default |-> "python"]>>
      [] cls = "List" -> <<[name |-> "block", kind |-> "bool", default |-> FALSE],
                           [name |-> "ordered", kind |-> "bool", default |-> FALSE],
                           [name |-> "prelude", kind |-> "str", default |-> ""]>>
      [] OTHER -> <<>>

\* cls.init_attributes()
init_attributes(cls) ==
    LET A == ATTRIBUTES(cls)
    IN [n \in {A[i].name : i \in 1..Len(A)} |->
           A[CHOOSE i \in 1..Len(A) : A[i].name = n].default]

\* f.readline() with the file f at line p of st: the line returned and the new position
readline(st, p) ==
    LET q == IF p <= Len(st) THEN p + 1 ELSE p
    IN [line |-> IF q <= Len(st) THEN st[q] ELSE "", pos |-> q]

\* the strings of the tuple ("true", "yes", "t", 1, "y"): its fourth member is the
\* integer 1, which no string equals
TrueTexts == {"true", "yes", "t", "y"}

\* value coerced by the type of the attribute's default
Coerce(kind, value) ==
    IF kind = "bool" THEN Lower(value) \in TrueTexts ELSE value

\* the loop of parse_attr from the i-th declared attribute on
RECURSIVE ParseAttrFrom(_, _, _, _, _, _)
ParseAttrFrom(A, i, ln, st, p, at) ==
    IF i > Len(A) THEN [line |-> ln, pos |-> p, attrs |-> at]
    ELSE IF StartsWith(ln, A[i].name \o "=")
    THEN LET value == Strip(Replace(ln, A[i].name \o "=", ""))
             r == readline(st, p)
         IN ParseAttrFrom(A, i + 1, r.line, st, r.pos,
                          [at EXCEPT ![A[i].name] = Coerce(A[i].kind, value)])
    ELSE ParseAttrFrom(A, i + 1, ln, st, p, at)

\* cls.parse_attr(line, f, doc, attrs), f at line p of st
parse_attr(cls, ln, st, p, at) == ParseAttrFrom(ATTRIBUTES(cls), 1, ln, st, p, at)

\* parse_gen as it would be if it read the next line before it returned a terminator
parse_genReadsOn(cls, ln, st, p, at) ==
    IF ln = "" \/ StartsWith(ln, "[") \/ StartsWith(ln, "--")
    THEN [line |-> ln, brk |-> TRUE, pos |-> readline(st, p).pos, attrs |-> at]
    ELSE LET r == parse_attr(cls, ln, st, p, at)
         IN [line |-> IF StartsWith(r.line, "__nop") THEN Replace(r.line, "__nop", "")
                      ELSE r.line,
             brk |-> FALSE, pos |-> r.pos, attrs |-> r.attrs]

\* cls.parse_gen(line, f, doc, attrs): the line and should_break returned, and what
\* became of f and attrs
parse_gen(cls, ln, st, p, at) ==
    IF ln = "" \/ StartsWith(ln, "[") \/ StartsWith(ln, "--")
    THEN [line |-> ln, brk |-> TRUE, pos |-> p, attrs |-> at]
    ELSE LET r == parse_attr(cls, ln, st, p, at)
         IN [line |-> IF StartsWith(r.line, "__nop") THEN Replace(r.line, "__nop", "")
                      ELSE r.line,
             brk |-> FALSE, pos |-> r.pos, attrs |-> r.attrs]

(***************************************************************************)
(* The report files, the clock and the array table                         *)
(***************************************************************************)
MaxLines == 4

\* doc.name
DocName == "report"

\* lines every report may hold: a section marker, a blank line, a line of text
Common == {"[A]\n", "\n", "a\n"}

\* the lines that belong to the directive of keyword k, besides its marker
OwnLines(k) ==
    CASE k = "alert" -> {"type=info\n"}
      [] k = "code" -> {"type=js\n"}
      [] k = "python" -> {"print=x\n"}
      [] k = "list" -> {"block=true\n", "ordered=yes\n", "prelude=x\n"}
      [] k \in {"video", "svg-list", "fst-list"} -> {"a b\n"}
      [] k \in {"image", "audio"} -> {" b.png \n"}
      [] OTHER -> {}

Keywords == DOMAIN REGISTER \cup {"bogus"}

Vocabulary(k) == Common \cup {"--" \o k \o "\n"} \cup OwnLines(k)

\* the lines of reports that mix scripts, plots and text
ScriptLines ==
    {"[A]\n", "--javascript\n", "--plotly\n", "--paragraph\n", "f();\n", "z = @data.x[:2]\n"}

\* the lines of reports with a prelude
PreludeLines ==
    {"[A]\n", "accordion=Yes\n", "accordion=no\n", "template=wide\n", "--alert\n", "a\n"}

\* the reports of at most MaxLines lines that use one keyword, and those of script
\* lines and of prelude lines
Streams ==
    UNION {UNION {[1..n -> V] : n \in 0..MaxLines} :
              V \in {Vocabulary(k) : k \in Keywords} \cup {ScriptLines, PreludeLines}}

\* how far time.time() can have moved between two calls, in units
\* of 1/TicksPerSecond s
TicksPerSecond == 10000
ClockSteps == {0, 1, TicksPerSecond}

\* the array table of the report
TheTable ==
    [k \in {"x", "m"} |->
        IF k = "x" THEN Array1(<<10, 20, 30, 40, 50>>)
        ELSE Array2(<< <<1, 2, 3>>, <<4, 5, 6>> >>, 3)]

NoData == [none |-> TRUE, tbl |-> <<>>]
Table == [none |-> FALSE, tbl |-> TheTable]

(***************************************************************************)
(* main, Document.parse, Section.parse                                     *)
(***************************************************************************)
NoSection == [title |-> "", id |-> "", accordion |-> FALSE, content |-> <<>>]

resultVars == <<html, arr, new_line>>
docVars == <<accordion, template, content, js, data>>
dirVars == <<dcls, attrs, body, src, marker>>

\* an exception nothing catches
Fail(e) ==
    /\ pc' = "error"
    /\ err' = e
    /\ UNCHANGED <<stream, pos, line, prelude, cur, clock>>
    /\ UNCHANGED <<docVars, dirVars, resultVars>>

\* line = f.readline()
Advance ==
    LET r == readline(stream, pos)
    IN line' = r.line /\ pos' = r.pos

\* main: the first readline and the call of doc.parse
Main ==
    /\ pc = "main"
    /\ Advance
    /\ pc' = "doc"
    /\ prelude' = TRUE
    /\ UNCHANGED <<stream, err, cur, clock>>
    /\ UNCHANGED <<docVars, dirVars, resultVars>>

\* one pass of the loop of Document.parse; the pass that meets a section marker
\* runs up to the first readline of Section.parse
DocumentParse ==
    /\ pc = "doc"
    /\ IF line = ""
       THEN /\ pc' = "done"
            /\ UNCHANGED <<line, pos, prelude, accordion, template, cur>>
       ELSE IF line = "\n"
       THEN /\ Advance
            /\ UNCHANGED <<pc, prelude, accordion, template, cur>>
       ELSE IF prelude /\ ~StartsWith(line, "[")
       THEN /\ accordion' =
                  IF StartsWith(line, "accordion=")
                  THEN Lower(Strip(Replace(line, "accordion=", ""))) \in {"true", "1", "y", "yes"}
                  ELSE accordion
            /\ template' =
                  IF StartsWith(line, "template=")
                  THEN Strip(Replace(line, "template=", ""))
                  ELSE template
            /\ Advance
            /\ UNCHANGED <<pc, prelude, cur>>
       ELSE IF StartsWith(line, "[")
       THEN /\ prelude' = FALSE
            /\ cur' = [title |-> SubSeq(Strip(line), 2, Len(Strip(line)) - 1),
                       id |-> Format03d(Len(content) + 1),
                       accordion |-> accordion,
                       content |-> <<>>]
            /\ Advance
            /\ pc' = "section"
            /\ UNCHANGED <<accordion, template>>
       ELSE /\ Advance
            /\ UNCHANGED <<pc, prelude, accordion, template, cur>>
    /\ UNCHANGED <<stream, err, content, js, data, clock>>
    /\ UNCHANGED <<dirVars, resultVars>>

\* the keyword of a directive marker
Keyword(ln) == Strip(Replace(Strip(ln), "--", ""))

\* Section.parse returns and Document.parse appends the section
SectionReturn ==
    /\ content' = Append(content, cur)
    /\ cur' = NoSection
    /\ pc' = "doc"
    /\ UNCHANGED <<stream, pos, line, err, prelude, clock, accordion, template, js, data>>
    /\ UNCHANGED <<dirVars, resultVars>>

\* Section.parse as it would be if it made paragraph text of a line it does not know
SectionSkipAsParagraph ==
    /\ Advance
    /\ cur' = [cur EXCEPT !.content = Append(@, [cls |-> "Paragraph", text |-> Strip(line)])]
    /\ UNCHANGED <<stream, pc, err, prelude, clock>>
    /\ UNCHANGED <<docVars, dirVars, resultVars>>

\* Section.parse skips a line
SectionSkip ==
    /\ Advance
    /\ UNCHANGED <<stream, pc, err, prelude, cur, clock>>
    /\ UNCHANGED <<docVars, dirVars, resultVars>>

\* Section.parse as it would be if it passed over a marker whose keyword REGISTER
\* does not hold
SectionDirectiveTolerant ==
    IF Keyword(line) \notin DOMAIN REGISTER
    THEN SectionSkip
    ELSE /\ pc' = "call"
         /\ dcls' = REGISTER[Keyword(line)]
         /\ marker' = pos
         /\ UNCHANGED <<stream, pos, line, err, prelude, cur, clock, attrs, body, src>>
         /\ UNCHANGED <<docVars, resultVars>>

\* Section.parse at a line that starts with "--": the look-up in REGISTER and the call
SectionDirective ==
    IF Keyword(line) \notin DOMAIN REGISTER
    THEN Fail("KeyError")
    ELSE /\ pc' = "call"
         /\ dcls' = REGISTER[Keyword(line)]
         /\ marker' = pos
         /\ UNCHANGED <<stream, pos, line, err, prelude, cur, clock, attrs, body, src>>
         /\ UNCHANGED <<docVars, resultVars>>

\* one pass of the loop of Section.parse
SectionParse ==
    /\ pc = "section"
    /\ IF line = "" THEN SectionReturn
       ELSE IF line = "\n" THEN SectionSkip
       ELSE IF StartsWith(line, "--") THEN SectionDirective
       ELSE IF StartsWith(line, "[") THEN SectionReturn
       ELSE SectionSkip

(***************************************************************************)
(* The directive parsers.  Each action is one class's parse: at pc = "call"*)
(* the statements before its loop, at pc = "directive" one pass of the     *)
(* loop, which ends with a readline or with the return to Section.parse,   *)
(* where the element returned is appended to the section.                  *)
(***************************************************************************)
\* the statements before the loop: the first readline and the locals
Enter(b0, s0, clk) ==
    /\ Advance
    /\ attrs' = init_attributes(dcls)
    /\ body' = b0
    /\ src' = s0
    /\ clock' = clk
    /\ pc' = "directive"
    /\ UNCHANGED <<stream, err, prelude, cur, dcls, marker>>
    /\ UNCHANGED <<docVars, resultVars>>

\* a pass as it would be without `line = f.readline()` at its end
LoopWithoutRead(g, b, s) ==
    /\ line' = g.line
    /\ pos' = g.pos
    /\ attrs' = g.attrs
    /\ body' = b
    /\ src' = s
    /\ UNCHANGED <<stream, pc, err, prelude, cur, clock, dcls, marker>>
    /\ UNCHANGED <<docVars, resultVars>>

\* a pass that keeps going: the accumulators after it and `line = f.readline()`
Loop(g, b, s) ==
    LET r == readline(stream, g.pos)
    IN /\ line' = r.line
       /\ pos' = r.pos
       /\ attrs' = g.attrs
       /\ body' = b
       /\ src' = s
       /\ UNCHANGED <<stream, pc, err, prelude, cur, clock, dcls, marker>>
       /\ UNCHANGED <<docVars, resultVars>>

\* `return line, cls(...)`, and self.content.append(obj) of Section.parse
Return(g, elt, newjs) ==
    /\ cur' = [cur EXCEPT !.content = Append(@, elt)]
    /\ js' = newjs
    /\ line' = g.line
    /\ pos' = g.pos
    /\ pc' = "section"
    /\ dcls' = ""
    /\ attrs' = <<>>
    /\ body' = <<>>
    /\ src' = ""
    /\ marker' = 0
    /\ UNCHANGED <<stream, err, prelude, clock, accordion, template, content, data>>
    /\ UNCHANGED resultVars

\* cls.parse_gen on the current line
Gen == parse_gen(dcls, line, stream, pos, attrs)

\* lines.append(doc.replace_data(line)) and the readline; d is what replace_data did
Substituted(d) ==
    IF d.exc # "" THEN Fail(d.exc) ELSE Loop(Gen, Append(body, d.val), src)

ImageParse ==
    /\ pc \in {"call", "directive"} /\ dcls = "Image"
    /\ IF pc = "call" THEN Enter(<<>>, "", clock)
       ELSE IF Gen.brk THEN Return(Gen, [cls |-> "Image", src |-> src], js)
       ELSE IF Gen.line = "\n" THEN Loop(Gen, body, src)
       ELSE Loop(Gen, body, Strip(Gen.line))

\* Javascript.parse as it would be without `doc.js += lines`
JavascriptParseKeepsLines ==
    /\ pc \in {"call", "directive"} /\ dcls = "Javascript"
    /\ IF pc = "call" THEN Enter(<<>>, "", clock)
       ELSE IF Gen.brk THEN Return(Gen, [cls |-> "Javascript"], js)
       ELSE Loop(Gen, Append(body, Gen.line), src)

\* Javascript.parse as it would be if it returned its lines as markup
JavascriptParseAsMarkup ==
    /\ pc \in {"call", "directive"} /\ dcls = "Javascript"
    /\ IF pc = "call" THEN Enter(<<>>, "", clock)
       ELSE IF Gen.brk
       THEN Return(Gen, [cls |-> "Html", html |-> Join(body, "")], js \o body)
       ELSE Loop(Gen, Append(body, Gen.line), src)

JavascriptParse ==
    /\ pc \in {"call", "directive"} /\ dcls = "Javascript"
    /\ IF pc = "call" THEN Enter(<<>>, "", clock)
       ELSE IF Gen.brk THEN Return(Gen, [cls |-> "Javascript"], js \o body)
       ELSE Loop(Gen, Append(body, Gen.line), src)

HtmlParse ==
    /\ pc \in {"call", "directive"} /\ dcls = "Html"
    /\ IF pc = "call" THEN Enter(<<>>, "", clock)
       ELSE IF Gen.brk THEN Return(Gen, [cls |-> "Html", html |-> Join(body, "")], js)
       ELSE Loop(Gen, Append(body, Gen.line), src)

\* exec(pgm): what the program printed, or the exception it raised.  The empty
\* program prints nothing; of any other the model knows nothing
ExecResults(pgm) ==
    IF pgm = "" THEN {Ok("")} ELSE {Ok(""), Ok("out\n"), Raise("Exception")}

PythonParse ==
    /\ pc \in {"call", "directive"} /\ dcls = "Python"
    /\ IF pc = "call" THEN Enter(<<>>, "", clock)
       ELSE IF Gen.brk
       THEN \E r \in ExecResults(Join(body, "")) :
                IF r.exc # "" THEN Fail(r.exc)
                ELSE Return(Gen, [cls |-> "Python", html |-> r.val], js)
       ELSE Substituted(replace_data(data, Gen.line))

\* os.path.join(folder, "{}.png".format(int(time.time()))) at time t
PlotPath(t) == "plots/" \o DocName \o "/" \o IntToStr(t \div TicksPerSecond) \o ".png"

PyplotParse ==
    /\ pc \in {"call", "directive"} /\ dcls = "Pyplot"
    /\ IF pc = "call"
       THEN \E d \in ClockSteps : Enter(<<>>, PlotPath(clock + d), clock + d)
       ELSE IF Gen.brk
       THEN \E r \in ExecResults(Join(body \o <<"plt.savefig('" \o src \o "')\n",
                                                 "plt.close()\n">>, "")) :
                IF r.exc # "" THEN Fail(r.exc)
                ELSE Return(Gen, [cls |-> "Pyplot", src |-> src], js)
       ELSE Substituted(replace_data(data, Gen.line))

\* "plot-{}".format(str(int(time.time() * 10000))) at time t
PlotId(t) == "plot-" \o IntToStr(t)

PlotlyParse ==
    /\ pc \in {"call", "directive"} /\ dcls = "Plotly"
    /\ IF pc = "call"
       THEN \E d \in ClockSteps :
                Enter(<<"CONTAINER = document.getElementById('" \o PlotId(clock + d) \o "');">>,
                      PlotId(clock + d), clock + d)
       ELSE IF Gen.brk THEN Return(Gen, [cls |-> "Plotly", id |-> src], js \o body)
       ELSE Substituted(replace_data(data, Gen.line))

AudioParse ==
    /\ pc \in {"call", "directive"} /\ dcls = "Audio"
    /\ IF pc = "call" THEN Enter(<<>>, "", clock)
       ELSE IF Gen.brk THEN Return(Gen, [cls |-> "Audio", src |-> src], js)
       ELSE IF Gen.line = "\n" THEN Loop(Gen, body, src)
       ELSE Loop(Gen, body, Strip(Gen.line))

VideoParse ==
    /\ pc \in {"call", "directive"} /\ dcls = "Video"
    /\ IF pc = "call" THEN Enter(<<>>, "", clock)
       ELSE IF Gen.brk THEN Return(Gen, [cls |-> "Video", src |-> body], js)
       ELSE IF Gen.line = "\n" THEN Loop(Gen, body, src)
       ELSE Loop(Gen, Append(body, Split(Strip(Gen.line))), src)

ParagraphParse ==
    /\ pc \in {"call", "directive"} /\ dcls = "Paragraph"
    /\ IF pc = "call" THEN Enter(<<>>, "", clock)
       ELSE IF Gen.brk THEN Return(Gen, [cls |-> "Paragraph", text |-> Join(body, " ")], js)
       ELSE Loop(Gen, Append(body, Strip(Gen.line)), src)

AlertParse ==
    /\ pc \in {"call", "directive"} /\ dcls = "Alert"
    /\ IF pc = "call" THEN Enter(<<>>, "", clock)
       ELSE IF Gen.brk
       THEN Return(Gen, [cls |-> "Alert", text |-> Join(body, ""), atype |-> attrs["type"]], js)
       ELSE Loop(Gen, Append(body, Gen.line), src)

\* the loop `while i > 0 and text[i].strip() == "": i -= 1`, i counted from 0
RECURSIVE LastKept(_, _)
LastKept(text, i) ==
    IF i > 0 /\ Strip(text[i + 1]) = "" THEN LastKept(text, i - 1) ELSE i

\* text[: i + 1] after that loop
TrimCode(text) == SubSeq(text, 1, LastKept(text, Len(text) - 1) + 1)

CodeSnippetParse ==
    /\ pc \in {"call", "directive"} /\ dcls = "CodeSnippet"
    /\ IF pc = "call" THEN Enter(<<>>, "", clock)
       ELSE IF Gen.brk
       THEN Return(Gen, [cls |-> "CodeSnippet", code_src |-> Join(TrimCode(body), ""),
                         ctype |-> attrs["type"]], js)
       ELSE Loop(Gen, Append(body, Gen.line), src)

SvgListParse ==
    /\ pc \in {"call", "directive"} /\ dcls = "SvgList"
    /\ IF pc = "call" THEN Enter(<<>>, "", clock)
       ELSE IF Gen.brk THEN Return(Gen, [cls |-> "SvgList", names_and_src |-> body], js)
       ELSE IF Gen.line = "\n" THEN Loop(Gen, body, src)
       ELSE LET x == Split(Strip(Gen.line))
            IN IF Len(x) = 0 THEN Fail("IndexError")
               ELSE Loop(Gen, Append(body, <<Join(Tail(x), " "), x[1]>>), src)

\* re.match("<<([^>]+)>>(.*)", s): None, or Some of <<group 1, group 2>>
LinkMatch(s) ==
    LET n == RunUntil(Drop(s, 2), ">")
    IN IF StartsWith(s, "<<") /\ n >= 1 /\ StartsWith(Drop(s, 2 + n), ">>")
       THEN Some(<<SubSeq(s, 3, 2 + n), Drop(s, 4 + n)>>)
       ELSE None

\* the item List.parse makes of a body line: the text and the href (None when plain)
ListItem(ln) ==
    LET m == LinkMatch(Strip(ln))
    IN IF StartsWith(ln, "<<") /\ m # None
       THEN <<m[1][2], Some(m[1][1])>>
       ELSE <<Strip(ln), None>>

ListParse ==
    /\ pc \in {"call", "directive"} /\ dcls = "List"
    /\ IF pc = "call" THEN Enter(<<>>, "", clock)
       ELSE IF Gen.brk
       THEN Return(Gen, [cls |-> "List", items |-> body, block |-> attrs["block"],
                         ordered |-> attrs["ordered"], prelude |-> attrs["prelude"]], js)
       ELSE IF Gen.line = "\n" THEN Loop(Gen, body, src)
       ELSE Loop(Gen, Append(body, ListItem(Gen.line)), src)

(***************************************************************************)
(* render(): Ok(Some(text)) when it returns a string, Ok(None) when it     *)
(* returns None, Raise(e) when it raises                                   *)
(***************************************************************************)
\* re.sub(open + "([^" + excl + "]+)" + close, pre + r"\1" + post, s); n is the
\* length of the run without excl after the first Len(open) characters of s
RECURSIVE SubDelim(_, _, _, _, _, _)
RECURSIVE SubDelimAt(_, _, _, _, _, _, _)
SubDelimAt(s, n, open, excl, close, pre, post) ==
    IF StartsWith(s, open) /\ n >= 1 /\ StartsWith(Drop(s, Len(open) + n), close)
    THEN pre \o SubSeq(s, Len(open) + 1, Len(open) + n) \o post
         \o SubDelim(Drop(s, Len(open) + n + Len(close)), open, excl, close, pre, post)
    ELSE CharAt(s, 1) \o SubDelim(Drop(s, 1), open, excl, close, pre, post)

SubDelim(s, open, excl, close, pre, post) ==
    IF Len(s) = 0 THEN ""
    ELSE SubDelimAt(s, RunUntil(Drop(s, Len(open)), excl), open, excl, close, pre, post)

\* re.sub("\[([^\]]+)\]\(([^\)]+)\)", r"<a href='\2'>\1</a>", s); n and m are the
\* lengths of the runs that groups 1 and 2 would take
RECURSIVE SubLink(_)
RECURSIVE SubLinkAt(_, _, _)
SubLinkAt(s, n, m) ==
    IF /\ CharAt(s, 1) = "[" /\ n >= 1 /\ StartsWith(Drop(s, 1 + n), "](")
       /\ m >= 1 /\ StartsWith(Drop(s, 3 + n + m), ")")
    THEN "<a href='" \o SubSeq(s, 4 + n, 3 + n + m) \o "'>" \o SubSeq(s, 2, 1 + n) \o "</a>"
         \o SubLink(Drop(s, 4 + n + m))
    ELSE CharAt(s, 1) \o SubLink(Drop(s, 1))

SubLinkRun(s, n) == SubLinkAt(s, n, RunUntil(Drop(s, 3 + n), ")"))

SubLink(s) ==
    IF Len(s) = 0 THEN "" ELSE SubLinkRun(s, RunUntil(Drop(s, 1), "]"))

\* the grave accent that marks inline code: no TLA+ string can hold that character,
\* and the model writes it as a tilde
Backtick == "~"

\* the four substitutions of Text.render, in its order
Styled(s) ==
    SubLink(SubDelim(SubDelim(SubDelim(s, Backtick, Backtick, Backtick, "<code>", "</code>"),
                              "**", "*", "**", "<b>", "</b>"),
                     "*", "*", "*", "<i>", "</i>"))

\* the inner loop of Text.render over seg.split("$")
RenderSubSegments(sub_segments) ==
    Join([j \in 1..Len(sub_segments) |->
             IF j % 2 = 0 THEN sub_segments[j] ELSE Styled(sub_segments[j])], "$")

\* the outer loop of Text.render over text.split("$$")
RenderSegments(segments) ==
    Join([i \in 1..Len(segments) |->
             IF i % 2 = 0 THEN segments[i]
             ELSE RenderSubSegments(SplitOn(segments[i], "$"))], "$$")

\* Text(text).render()
TextRender(text) == RenderSegments(SplitOn(text, "$$"))

\* the opening and the closing tag HtmlElement.render writes; attrs are <<key, value>> pairs
OpenTag(tag, tagAttrs) ==
    "<" \o tag \o " "
    \o Join([i \in 1..Len(tagAttrs) |-> tagAttrs[i][1] \o "=\"" \o tagAttrs[i][2] \o "\""], " ")
    \o ">"

CloseTag(tag) == "</" \o tag \o ">"

\* HtmlElement(tag, attrs).render() with children that rendered to inner
HtmlRender(tag, tagAttrs, inner) == OpenTag(tag, tagAttrs) \o inner \o CloseTag(tag)

ImageRender(path) == "<center><br/><img src=\"" \o path \o "\" width=\"80%\"/><br/></center>"

\* Video.render: the loop `for vtype, src in self.src` unpacks pairs; then no return
VideoRender(src_types) ==
    IF \E i \in 1..Len(src_types) : Len(src_types[i]) # 2
    THEN Raise("ValueError") ELSE Ok(None)

SvgItem(name, href) ==
    HtmlRender("a", <<<<"href", href>>,
                      <<"class", "list-group-item list-group-item-action svg-view">>>>,
               TextRender(name))

SvgListRender(names_and_src) ==
    HtmlRender("div", <<<<"class", "list-group">>>>,
               Join([i \in 1..Len(names_and_src) |->
                        SvgItem(names_and_src[i][1], names_and_src[i][2])], ""))

\* the element List.render makes of one item
ListItemRender(item, block) ==
    IF item[2] = None
    THEN HtmlRender("li", <<<<"class", IF block THEN "list-group-item" ELSE "">>>>,
                    TextRender(item[1]))
    ELSE IF block
    THEN HtmlRender("a", <<<<"class", "list-group-item list-group-item-action">>,
                           <<"href", item[2][1]>>>>, TextRender(item[1]))
    ELSE HtmlRender("li", <<<<"class", "">>>>,
                    HtmlRender("a", <<<<"href", item[2][1]>>>>, TextRender(item[1])))

ListItemsRender(items, block) ==
    Join([i \in 1..Len(items) |-> ListItemRender(items[i], block)], "")

ListRender(e) ==
    TextRender(e.prelude)
    \o (IF e.block
        THEN HtmlRender("div", <<<<"class", "list-group">>>>, ListItemsRender(e.items, TRUE))
        ELSE HtmlRender(IF e.ordered THEN "ol" ELSE "ul", <<>>, ListItemsRender(e.items, FALSE)))

\* render() of the element a directive parser returned
ElementRender(e) ==
    CASE e.cls = "Image" -> Ok(Some(ImageRender(e.src)))
      [] e.cls = "Javascript" -> Ok(Some(""))
      [] e.cls = "Html" -> Ok(Some(e.html))
      [] e.cls = "Python" -> Ok(Some(e.html))
      [] e.cls = "Pyplot" -> Ok(Some(ImageRender(e.src)))
      [] e.cls = "Plotly" ->
            Ok(Some(HtmlRender("div", <<<<"class", "row">>, <<"id", e.id>>>>, "")))
      [] e.cls = "Audio" -> Ok(None)      \* Audio.render builds html and returns nothing
      [] e.cls = "Video" -> VideoRender(e.src)
      [] e.cls = "Paragraph" -> Ok(Some(HtmlRender("p", <<>>, TextRender(e.text))))
      [] e.cls = "Alert" ->
            Ok(Some(HtmlRender("div", <<<<"class", "alert alert-" \o e.atype>>>>,
                               TextRender(e.text))))
      [] e.cls = "CodeSnippet" ->
            Ok(Some("<pre><code class=\"" \o e.ctype \o "\">" \o e.code_src \o "</code></pre>"))
      [] e.cls = "SvgList" -> Ok(Some(SvgListRender(e.names_and_src)))
      [] e.cls = "List" -> Ok(Some(ListRender(e)))

\* the loop `for c in self.content: html += c.render()` of HtmlElement.render over
\* elements; r is what the render() of the element before returned
RECURSIVE RenderElements(_, _)
RECURSIVE RenderedElement(_, _, _)
RenderedElement(inner, r, rest) ==
    IF r.exc # "" THEN r
    ELSE IF r.val = None THEN Raise("TypeError")     \* str + None
    ELSE RenderElements(inner \o r.val[1], rest)

RenderElements(inner, elts) ==
    IF Len(elts) = 0 THEN Ok(inner)
    ELSE RenderedElement(inner, ElementRender(elts[1]), Tail(elts))

\* Section.render around a body that rendered to r
SectionAround(sec, r) ==
    IF r.exc # "" THEN r
    ELSE IF sec.accordion
    THEN Ok(HtmlRender("div", <<<<"class", "accordion-item">>>>,
            HtmlRender("h2", <<<<"class", "accordion-header">>, <<"id", "heading" \o sec.id>>>>,
                HtmlRender("button",
                    <<<<"class", "accordion-button collapsed">>,
                      <<"type", "button">>,
                      <<"data-bs-toggle", "collapse">>,
                      <<"data-bs-target", "#collapse" \o sec.id>>,
                      <<"aria-expanded", "false">>,
                      <<"aria-controls", "collapse" \o sec.id>>>>,
                    TextRender(sec.title)))
            \o HtmlRender("div",
                    <<<<"id", "collapse" \o sec.id>>,
                      <<"class", "accordion-collapse collapse">>,
                      <<"aria-labelledby", "heading" \o sec.id>>,
                      <<"data-bs-parent", "#accordionExample">>>>,
                    HtmlRender("div", <<<<"class", "accordion-body">>>>, r.val))))
    ELSE Ok(HtmlRender("div", <<<<"class", "section">>>>,
            HtmlRender("h2", <<<<"class", "section-header">>, <<"id", "heading" \o sec.id>>>>,
                       TextRender(sec.title))
            \o HtmlRender("div", <<<<"class", "section-body">>>>, r.val)))

\* Section.render
SectionRender(sec) == SectionAround(sec, RenderElements("", sec.content))

\* the loop of HtmlElement.render over the sections of the document
RECURSIVE RenderSections(_, _)
RECURSIVE RenderedSection(_, _, _)
RenderedSection(inner, r, rest) ==
    IF r.exc # "" THEN r ELSE RenderSections(inner \o r.val, rest)

RenderSections(inner, secs) ==
    IF Len(secs) = 0 THEN Ok(inner)
    ELSE RenderedSection(inner, SectionRender(secs[1]), Tail(secs))

DocumentAround(acc, r) ==
    IF r.exc # "" THEN r
    ELSE Ok(HtmlRender("div", <<<<"class", IF acc THEN "accordion" ELSE "">>,
                                <<"id", "accordionExample">>>>, r.val))

\* Document.render for doc.accordion = acc and doc.content = secs
DocumentRender(acc, secs) == DocumentAround(acc, RenderSections("", secs))

\* Document.save writes the template with its two places filled in; r is what
\* self.render() did
Saved(r) ==
    IF r.exc # "" THEN Fail(r.exc)
    ELSE /\ html' = Some([content |-> r.val, script |-> Join(js, "")])
         /\ pc' = "saved"
         /\ UNCHANGED <<stream, pos, line, err, prelude, cur, clock, arr, new_line>>
         /\ UNCHANGED <<docVars, dirVars>>

Save ==
    /\ pc = "done"
    /\ Saved(DocumentRender(accordion, content))

(***************************************************************************)
(* The compile of one report                                               *)
(***************************************************************************)
Init ==
    /\ stream \in Streams
    /\ pos = 0
    /\ line = ""
    /\ pc = "main"
    /\ err = ""
    /\ prelude = TRUE
    /\ accordion = FALSE
    /\ template = "default"
    /\ content = <<>>
    /\ cur = NoSection
    /\ dcls = ""
    /\ attrs = <<>>
    /\ body = <<>>
    /\ src = ""
    /\ marker = 0
    /\ js = <<>>
    /\ clock = 0
    /\ data = Table
    /\ html = None
    /\ arr = None
    /\ new_line = None

Next ==
    \/ Main
    \/ DocumentParse
    \/ SectionParse
    \/ ImageParse
    \/ JavascriptParse
    \/ HtmlParse
    \/ PythonParse
    \/ PyplotParse
    \/ PlotlyParse
    \/ AudioParse
    \/ VideoParse
    \/ ParagraphParse
    \/ AlertParse
    \/ CodeSnippetParse
    \/ SvgListParse
    \/ ListParse
    \/ Save

Spec == Init /\ [][Next]_vars

\* the compile from before the report file is opened: main has built the Document
\* and no line stream is at hand yet
InitOpen ==
    /\ stream = <<>>
    /\ pos = 0
    /\ line = ""
    /\ pc = "open"
    /\ err = ""
    /\ prelude = TRUE
    /\ accordion = FALSE
    /\ template = "default"
    /\ content = <<>>
    /\ cur = NoSection
    /\ dcls = ""
    /\ attrs = <<>>
    /\ body = <<>>
    /\ src = ""
    /\ marker = 0
    /\ js = <<>>
    /\ clock = 0
    /\ data = Table
    /\ html = None
    /\ arr = None
    /\ new_line = None

\* `with open(raw_file) as f`: the report file is one of the line streams
Open ==
    /\ pc = "open"
    /\ stream' \in Streams
    /\ pc' = "main"
    /\ UNCHANGED <<pos, line, err, prelude, cur, clock>>
    /\ UNCHANGED <<docVars, dirVars, resultVars>>

NextOpen == Open \/ Next

\* a statement of the parse or of the save is the next one to run
Running == pc \notin {"open", "saved", "error"}

\* the interpreter always runs the next statement of the compile: weak fairness
\* of Open and of Next, the latter with ENABLED <<Next>>_vars written as the state
\* predicate it equals, Running
FairSpec ==
    /\ InitOpen
    /\ [][NextOpen]_vars
    /\ WF_vars(Open)
    /\ ([]<><<Next>>_vars) \/ ([]<>~Running)

(***************************************************************************)
(* Data references resolved on their own: one line that holds a reference, *)
(* handed to get_data and to replace_data                                  *)
(***************************************************************************)
MaxIndex == 6
MaxStep == 2

\* the texts of the start and stop fields and of an index, and of the step field
IndexTexts == {IntToStr(i) : i \in (0 - MaxIndex)..MaxIndex}
StepTexts == {IntToStr(i) : i \in (0 - MaxStep)..MaxStep}

\* the ops [i], [a:b] and [a:b:s], every field of a slice possibly empty
FirstOps ==
    {"[" \o i \o "]" : i \in IndexTexts}
    \cup {"[" \o a \o ":" \o b \o "]" : a \in IndexTexts \cup {""}, b \in IndexTexts \cup {""}}
    \cup {"[" \o ab[1] \o ":" \o ab[2] \o ":" \o st \o "]" :
             ab \in (IndexTexts \cup {""}) \X (IndexTexts \cup {""}), st \in StepTexts \cup {""}}

\* the ops that may follow the first
ChainOps == {"[0]", "[1]", "[-1]", "[3]", "[:2]", "[::-1]"}

\* the references: a name of the table, then no op, one op or two
Refs ==
    {"@data." \o n \o o[1] \o o[2] :
        n \in {"x", "m"}, o \in (FirstOps \cup {""}) \X (ChainOps \cup {""})}

\* references that go two to a line, one the beginning of another among them
PairRefs == {"@data.x", "@data.m", "@data.m[0]", "@data.m[1]", "@data.x[:2]", "@data.x[::-1]"}

\* the lines that hold one reference, and two
RefLines == {"y = " \o ref \o "\n" : ref \in Refs}
PairLines == {"y = " \o p[1] \o " + " \o p[2] \o "\n" : p \in PairRefs \X PairRefs}

\* lines that refer to a name the table does not hold, and lines without a reference
UnknownLines == {"y = @data.q\n", "y = @data.q[0]\n", "y = @data.x + @data.q\n"}
PlainLines == {"y = 1\n", "\n", "data.x[0]\n", "y = @data.\n", "a@data b\n"}

\* the lines resolved with no array table bound
UnboundLines ==
    PlainLines \cup UnknownLines
    \cup {"y = @data.x\n", "y = @data.x[:2]\n", "y = @data.m[0]\n", "y = @data.x + @data.m\n"}

\* the reference of the line under resolution
TheRef == FindRefs(line)[1]

idle == <<stream, pos, prelude, accordion, template, content, cur, js, clock, html>>

InitData ==
    /\ \/ data = Table /\ line \in RefLines \cup PairLines \cup UnknownLines \cup PlainLines
       \/ data = NoData /\ line \in UnboundLines
    /\ pc = "ready"
    /\ err = ""
    /\ arr = None
    /\ new_line = None
    /\ stream = <<>> /\ pos = 0 /\ prelude = TRUE /\ accordion = FALSE
    /\ template = "default" /\ content = <<>> /\ cur = NoSection
    /\ dcls = "" /\ attrs = <<>> /\ body = <<>> /\ src = "" /\ marker = 0
    /\ js = <<>> /\ clock = 0 /\ html = None

\* doc.get_data(idstr) has returned r, or raised
GotData(r) ==
    /\ pc' = IF r.exc # "" THEN "error" ELSE "got"
    /\ err' = r.exc
    /\ arr' = IF r.exc # "" THEN None ELSE Some(r.val)
    /\ UNCHANGED <<line, data, new_line, idle, dirVars>>

GetData ==
    /\ pc = "ready"
    /\ Len(FindRefs(line)) > 0
    /\ GotData(get_data(data, TheRef, FALSE))

\* doc.replace_data(line) has returned r, or raised
ReplacedData(r) ==
    /\ pc' = IF r.exc # "" THEN "error" ELSE "replaced"
    /\ err' = r.exc
    /\ new_line' = IF r.exc # "" THEN None ELSE Some(r.val)
    /\ UNCHANGED <<line, data, arr, idle, dirVars>>

ReplaceData ==
    /\ pc = "ready"
    /\ ReplacedData(replace_data(data, line))

NextData == GetData \/ ReplaceData

SpecData == InitData /\ [][NextData]_vars

(***************************************************************************)
(* parse_attr on its own: List.parse at an attribute line                  *)
(***************************************************************************)
\* texts after `block=` or `ordered=`
BoolWords ==
    {"true", "True", "TRUE", "tRuE", "yes", "Yes", "YES", "t", "T", "1", "y", "Y",
     "false", "False", "no", "NO", "n", "f", "0", "on", "ok", "", "tru", "yess", "11", "y1"}

Padding == {"", " ", "\t"}

BoolLines ==
    {n \o "=" \o p[1] \o w \o p[2] \o "\n" :
        n \in {"block", "ordered"}, w \in BoolWords, p \in Padding \X Padding}

InitAttr ==
    /\ \E l \in BoolLines : stream = <<"[A]\n", "--list\n", l, "a\n">>
    /\ pos = 3
    /\ line = stream[3]
    /\ pc = "attr"
    /\ dcls = "List"
    /\ attrs = init_attributes("List")
    /\ marker = 2
    /\ cur = [title |-> "A", id |-> "001", accordion |-> FALSE, content |-> <<>>]
    /\ err = "" /\ prelude = FALSE /\ accordion = FALSE /\ template = "default"
    /\ content = <<>> /\ body = <<>> /\ src = "" /\ js = <<>> /\ clock = 0
    /\ data = Table /\ html = None /\ arr = None /\ new_line = None

\* cls.parse_attr(line, f, doc, attrs) has returned r
ParsedAttr(r) ==
    /\ line' = r.line
    /\ pos' = r.pos
    /\ attrs' = r.attrs
    /\ pc' = "attr_done"
    /\ UNCHANGED <<stream, err, prelude, cur, clock, dcls, body, src, marker>>
    /\ UNCHANGED <<docVars, resultVars>>

ParseAttr ==
    /\ pc = "attr"
    /\ ParsedAttr(parse_attr(dcls, line, stream, pos, attrs))

NextAttr == ParseAttr

SpecAttr == InitAttr /\ [][NextAttr]_vars

(***************************************************************************)
(* Properties of the parse of a report                                     *)
(***************************************************************************)
\* a line that ends a directive's body
Terminates(l) == l = "" \/ StartsWith(l, "[") \/ StartsWith(l, "--")

\* C1: the first line after a directive's marker that is end-of-stream or starts
\* with "[" or "--" ends the body and stays the lookahead: while a directive parser
\* runs, no line it has consumed (the lines after its marker and before the
\* lookahead) is such a line, attribute lines before it or not.
C1_TerminatorEndsBody ==
    pc = "directive" =>
        \A i \in (marker + 1)..(pos - 1) : i <= Len(stream) => ~Terminates(stream[i])

\* the section markers of the source, in order
IsMarker(l) == StartsWith(l, "[")
Markers == SelectSeq(stream, IsMarker)

\* C5: a source with N section markers parses to exactly N sections, in order of
\* appearance, the k-th with identifier k zero-padded to 3 digits, whatever lies
\* between the markers.
C5_OneSectionPerMarker ==
    pc = "done" =>
        /\ Len(content) = Len(Markers)
        /\ \A k \in 1..Len(content) :
              /\ content[k].id = Format03d(k)
              /\ content[k].title = SubSeq(Strip(Markers[k]), 2, Len(Strip(Markers[k])) - 1)

\* l is `<name>=value` for a name that cls declares
Declared(cls, l) ==
    \E i \in 1..Len(ATTRIBUTES(cls)) : StartsWith(l, ATTRIBUTES(cls)[i].name \o "=")

\* the first line from i on that is not a declared attribute of cls
RECURSIVE FirstUndeclared(_, _)
FirstUndeclared(cls, i) ==
    IF i <= Len(stream) /\ Declared(cls, stream[i]) THEN FirstUndeclared(cls, i + 1) ELSE i

\* the line `<name>=value` is stored in at
Stored(cls, l, at) ==
    \E i \in 1..Len(ATTRIBUTES(cls)) :
        /\ StartsWith(l, ATTRIBUTES(cls)[i].name \o "=")
        /\ at[ATTRIBUTES(cls)[i].name] =
              Coerce(ATTRIBUTES(cls)[i].kind,
                     Strip(Replace(l, ATTRIBUTES(cls)[i].name \o "=", "")))

\* what parse_attr returns for a run of attribute lines that ends before line q
RunConsumed(cls, r, q) ==
    /\ r.pos = q
    /\ r.line = (IF q <= Len(stream) THEN stream[q] ELSE "")
    /\ \A i \in pos..(q - 1) : Stored(cls, stream[i], r.attrs)

\* no two of the lines p..(q - 1) set the same attribute
NoNameTwice(cls, p, q) ==
    \A i \in p..(q - 1) : \A j \in (i + 1)..(q - 1) :
        \A k \in 1..Len(ATTRIBUTES(cls)) :
            ~(/\ StartsWith(stream[i], ATTRIBUTES(cls)[k].name \o "=")
              /\ StartsWith(stream[j], ATTRIBUTES(cls)[k].name \o "="))

\* C6: for a directive that declares several attributes, the run of declared
\* `name=value` lines directly after the marker is consumed whole by parse_attr, in
\* whatever order the lines come: every value is stored and the line returned is
\* the first that matches no declared attribute.
C6_AttributeRunConsumed ==
    (/\ pc = "directive" /\ pos = marker + 1
     /\ Len(ATTRIBUTES(dcls)) > 1 /\ Declared(dcls, line)
     /\ NoNameTwice(dcls, pos, FirstUndeclared(dcls, pos))) =>
        RunConsumed(dcls, parse_attr(dcls, line, stream, pos, attrs),
                    FirstUndeclared(dcls, pos))

\* the elements the directive parsers have produced so far
RECURSIVE ElementsOf(_)
ElementsOf(secs) == IF Len(secs) = 0 THEN <<>> ELSE Head(secs).content \o ElementsOf(Tail(secs))
Produced == ElementsOf(content) \o cur.content

\* render() returned markup text
IsText(r) == r.exc = "" /\ r.val # None

\* C8: every element a directive parser produced has a render() that returns markup
\* text, and Document.render() succeeds on every document parsed without error.
C8_EveryElementRenders ==
    /\ \A i \in 1..Len(Produced) : IsText(ElementRender(Produced[i]))
    /\ pc = "done" => DocumentRender(accordion, content).exc = ""

\* Section.parse is at a directive marker whose keyword is not a key of REGISTER
UnknownMarker ==
    pc = "section" /\ StartsWith(line, "--") /\ Keyword(line) \notin DOMAIN REGISTER

\* C9: at a directive marker with an unknown keyword the parse aborts with an error:
\* no element is produced, no later line is consumed, and after the error nothing
\* more happens to the document.
C9_UnknownKeywordAborts ==
    [][/\ UnknownMarker =>
            /\ pc' = "error" /\ err' = "KeyError"
            /\ pos' = pos /\ line' = line
            /\ cur' = cur /\ content' = content /\ js' = js
       /\ pc # "error"]_vars

\* C9's case: the parse has stopped at an unknown keyword with lines left unread
C9_Aborted ==
    /\ pc = "error" /\ err = "KeyError"
    /\ StartsWith(line, "--") /\ Keyword(line) \notin DOMAIN REGISTER
    /\ pos < Len(stream)

\* the body lines up to the last one that is not blank
LastNonBlank(text) ==
    IF \E i \in 1..Len(text) : Strip(text[i]) # ""
    THEN CHOOSE i \in 1..Len(text) :
            Strip(text[i]) # "" /\ \A j \in (i + 1)..Len(text) : Strip(text[j]) = ""
    ELSE 0
TrailingBlanksRemoved(text) == SubSeq(text, 1, LastNonBlank(text))

\* C10: the code text that a code directive renders is its body lines joined, with
\* all trailing blank lines removed and the others verbatim, so it never ends with
\* a blank line.
C10_TrailingBlankLinesTrimmed ==
    [][(pc = "directive" /\ dcls = "CodeSnippet" /\ pc' = "section") =>
          ElementRender(cur'.content[Len(cur'.content)]) =
              Ok(Some("<pre><code class=\"" \o attrs["type"] \o "\">"
                      \o Join(TrailingBlanksRemoved(body), "")
                      \o "</code></pre>"))]_vars

(***************************************************************************)
(* Properties of the data resolver                                         *)
(***************************************************************************)
\* the 1-D array and the 2-D array of the table
X == TheTable["x"].v
M == TheTable["m"].v

\* the element of xs at index i, negative indices counted from the end
ElementAt(xs, i) == xs[(IF i < 0 THEN i + Len(xs) ELSE i) + 1]

Clamp(v, lo, hi) == IF v < lo THEN lo ELSE IF v > hi THEN hi ELSE v

\* the first index of xs[a:b:s] and the index at which it stops; a and b are None
\* or Some(integer)
FromIndex(n, a, s) ==
    IF a = None THEN (IF s > 0 THEN 0 ELSE n - 1)
    ELSE IF s > 0 THEN Clamp(IF a[1] < 0 THEN a[1] + n ELSE a[1], 0, n)
    ELSE Clamp(IF a[1] < 0 THEN a[1] + n ELSE a[1], 0 - 1, n - 1)

ToIndex(n, b, s) ==
    IF b = None THEN (IF s > 0 THEN n ELSE 0 - 1)
    ELSE IF s > 0 THEN Clamp(IF b[1] < 0 THEN b[1] + n ELSE b[1], 0, n)
    ELSE Clamp(IF b[1] < 0 THEN b[1] + n ELSE b[1], 0 - 1, n - 1)

\* the indices that xs[a:b:s] selects out of 0..n-1
Selected(n, lo, hi, s) ==
    IF s > 0
    THEN {i \in 0..(n - 1) : i >= lo /\ i < hi /\ (i - lo) % s = 0}
    ELSE {i \in 0..(n - 1) : i <= lo /\ i > hi /\ (lo - i) % (0 - s) = 0}

\* standard slicing xs[a:b:s], s # 0: the selected elements, from index lo on, s apart
Picked(xs, lo, s, count) == [k \in 1..count |-> xs[lo + (k - 1) * s + 1]]
StdSliceBy(xs, lo, hi, s) == Picked(xs, lo, s, Cardinality(Selected(Len(xs), lo, hi, s)))
StdSlice(xs, a, b, s) == StdSliceBy(xs, FromIndex(Len(xs), a, s), ToIndex(Len(xs), b, s), s)

\* the text of a list of integers
ListText(xs) == "[" \o Join([i \in 1..Len(xs) |-> IntToStr(xs[i])], ", ") \o "]"

\* the line that holds the reference @data.<ref>
LineOf(ref) == "y = @data." \o ref \o "\n"

Indices == (0 - MaxIndex)..MaxIndex
Steps == ((0 - MaxStep)..MaxStep) \ {0}

\* the slice ops with a start: [a:b], [a:], [a:b:s], [a::s], each with the slice of
\* X it stands for
GivenStartCases ==
    {[op |-> "[" \o IntToStr(ab[1]) \o ":" \o IntToStr(ab[2]) \o "]",
      want |-> StdSlice(X, Some(ab[1]), Some(ab[2]), 1)] : ab \in Indices \X Indices}
    \cup {[op |-> "[" \o IntToStr(a) \o ":]",
           want |-> StdSlice(X, Some(a), None, 1)] : a \in Indices}
    \cup {[op |-> "[" \o IntToStr(c[1]) \o ":" \o IntToStr(c[2]) \o ":" \o IntToStr(c[3]) \o "]",
           want |-> StdSlice(X, Some(c[1]), Some(c[2]), c[3])] : c \in Indices \X Indices \X Steps}
    \cup {[op |-> "[" \o IntToStr(c[1]) \o "::" \o IntToStr(c[2]) \o "]",
           want |-> StdSlice(X, Some(c[1]), None, c[2])] : c \in Indices \X Steps}

\* get_data was called on the line and has returned or raised; likewise replace_data
AfterGetData == pc \in {"got", "error"}
AfterReplaceData == pc \in {"replaced", "error"}

\* C2: for the 1-D array x and a slice op with a start ([a:b], [a:], [a:b:s], [a::s],
\* s # 0), get_data returns the elements of standard slicing x[a:b:s] in the same
\* order and replace_data puts their list in the line; @data.x[1:3] gives [20, 30]
\* and @data.x[-2:] gives [40, 50].
C2_SliceWithStart ==
    /\ \A c \in GivenStartCases :
          (data = Table /\ line = LineOf("x" \o c.op)) =>
             /\ AfterGetData => (pc = "got" /\ arr = Some(Array1(c.want)))
             /\ AfterReplaceData =>
                   (pc = "replaced" /\ new_line = Some("y = " \o ListText(c.want) \o "\n"))
    /\ (data = Table /\ line = LineOf("x[1:3]") /\ AfterGetData) => arr = Some(Array1(<<20, 30>>))
    /\ (data = Table /\ line = LineOf("x[-2:]") /\ AfterGetData) => arr = Some(Array1(<<40, 50>>))

\* the references that come down to one scalar, each with the scalar: x[i], m[i][j]
ScalarCases ==
    {[ref |-> "x[" \o IntToStr(i) \o "]", want |-> ElementAt(X, i)] :
        i \in {i \in Indices : i >= 0 - Len(X) /\ i < Len(X)}}
    \cup {[ref |-> "m[" \o IntToStr(ij[1]) \o "][" \o IntToStr(ij[2]) \o "]",
           want |-> ElementAt(ElementAt(M, ij[1]), ij[2])] :
             ij \in {i \in Indices : i >= 0 - Len(M) /\ i < Len(M)} \X {0 - 1, 0, 1}}

\* C3: when the ops of a reference come down to one scalar, replace_data puts the
\* scalar's text in place of the reference and does not raise; @data.x[1] becomes 20.
C3_ScalarSubstituted ==
    /\ \A c \in ScalarCases :
          (data = Table /\ line = LineOf(c.ref) /\ AfterReplaceData) =>
             (pc = "replaced" /\ new_line = Some("y = " \o IntToStr(c.want) \o "\n"))
    /\ (data = Table /\ line = LineOf("x[1]") /\ AfterReplaceData) => new_line = Some("y = 20\n")

\* the slice ops without a start and with a stop or a step: [:b], [:b:s], [::s]
EmptyStartCases ==
    {[op |-> "[:" \o IntToStr(b) \o "]", want |-> StdSlice(X, None, Some(b), 1)] :
        b \in Indices}
    \cup {[op |-> "[:" \o IntToStr(c[1]) \o ":" \o IntToStr(c[2]) \o "]",
           want |-> StdSlice(X, None, Some(c[1]), c[2])] : c \in Indices \X Steps}
    \cup {[op |-> "[::" \o IntToStr(s) \o "]", want |-> StdSlice(X, None, None, s)] :
            s \in Steps}

\* C4: for the 1-D array x and a slice op without a start ([:b], [:b:s], [::s], s # 0),
\* get_data returns the elements of standard slicing, an out-of-range stop clamped and
\* a negative step reversing; @data.x[::-1] gives [50, 40, 30, 20, 10].
C4_SliceWithoutStart ==
    /\ \A c \in EmptyStartCases :
          (data = Table /\ line = LineOf("x" \o c.op) /\ AfterGetData) =>
             (pc = "got" /\ arr = Some(Array1(c.want)))
    /\ (data = Table /\ line = LineOf("x[::-1]") /\ AfterGetData) => arr = Some(Array1(<<50, 40, 30, 20, 10>>))

\* C4's cases: get_data has returned a reversed slice, and a slice whose stop lies
\* beyond the array
C4_Reversed ==
    /\ pc = "got" /\ line = LineOf("x[:-6:-2]")
    /\ arr = Some(Array1(<<50, 30, 10>>))

(***************************************************************************)
(* Properties of the attribute parser                                      *)
(***************************************************************************)
\* the text after `name=` on the attribute line, trimmed
TextAfter(name, l) == Strip(SubSeq(l, Len(name) + 2, Len(l)))

\* C7: a boolean attribute (list: block, ordered) is stored true exactly when the
\* trimmed text after `name=`, lower-cased, is one of "true", "yes", "t", "1", "y".
C7_BooleanTexts ==
    pc = "attr_done" =>
        \A name \in {"block", "ordered"} :
            StartsWith(stream[3], name \o "=") =>
                (attrs[name] = TRUE <=>
                    Lower(TextAfter(name, stream[3])) \in {"true", "yes", "t", "1", "y"})

(***************************************************************************)
(* Properties of the substitution of references in a line                  *)
(***************************************************************************)
\* the serialization of each of the references that go two to a line
PairTexts ==
    {[ref |-> "@data.x", text |-> "[10, 20, 30, 40, 50]"],
     [ref |-> "@data.m", text |-> "[[1, 2, 3], [4, 5, 6]]"],
     [ref |-> "@data.m[0]", text |-> "[1, 2, 3]"],
     [ref |-> "@data.m[1]", text |-> "[4, 5, 6]"],
     [ref |-> "@data.x[:2]", text |-> "[10, 20]"],
     [ref |-> "@data.x[::-1]", text |-> "[50, 40, 30, 20, 10]"]}

\* C11: in a line with several references, replace_data replaces each occurrence by
\* the serialization of its own expression, whatever the other references and their
\* order, also when one reference is the beginning of another (@data.m, @data.m[0]).
C11_EachReferenceItsOwn ==
    \A p \in PairTexts, q \in PairTexts :
        (/\ data = Table
         /\ line = "y = " \o p.ref \o " + " \o q.ref \o "\n"
         /\ AfterReplaceData) =>
            (pc = "replaced" /\ new_line = Some("y = " \o p.text \o " + " \o q.text \o "\n"))

(***************************************************************************)
(* Properties of the client-script payload                                 *)
(***************************************************************************)
\* the lines a directive parser has consumed after its marker
BodyLines == SubSeq(stream, marker + 1, pos - 1)

\* a body line of a report with its references substituted from the table
DataSubstituted(l) == IF l = "z = @data.x[:2]\n" THEN "z = [10, 20]\n" ELSE l

\* the statement that binds the container of a plot
Binding(id) == "CONTAINER = document.getElementById('" \o id \o "');"

\* the element a directive parser has just returned
Appended == cur'.content[Len(cur'.content)]

\* a directive parser returns to Section.parse
DirectiveReturns == pc = "directive" /\ pc' = "section"

\* C12: doc.js grows only when a javascript or a plotly directive has been parsed, in
\* source order: by the body lines verbatim for javascript, by one container-binding
\* statement and the data-substituted body lines for plotly; a directive of any other
\* kind, and every other step of the parse, leaves doc.js unchanged.
C12_ScriptPayload ==
    [][IF DirectiveReturns /\ dcls = "Javascript"
       THEN js' = js \o BodyLines
       ELSE IF DirectiveReturns /\ dcls = "Plotly"
       THEN js' = js \o <<Binding(Appended.id)>>
                     \o [i \in 1..Len(BodyLines) |-> DataSubstituted(BodyLines[i])]
       ELSE js' = js]_vars

\* C12's case: a report with a javascript directive and then a plotly directive has
\* been parsed
C12_ScriptThenPlot ==
    /\ pc = "done"
    /\ Len(js) = 2 /\ js[1] = "f();\n" /\ StartsWith(js[2], "CONTAINER = ")

(***************************************************************************)
(* Properties of the elements the directive parsers return                 *)
(***************************************************************************)
\* the first of the lines that is not blank, trimmed; "" if there is none
RECURSIVE FirstNonBlank(_)
FirstNonBlank(ls) ==
    IF Len(ls) = 0 THEN ""
    ELSE IF Strip(Head(ls)) # "" THEN Strip(Head(ls))
    ELSE FirstNonBlank(Tail(ls))

\* C13: the resource path of the element of an image or audio directive is the first
\* non-blank line of its body, trimmed; later body lines do not change it.
C13_FirstLineIsPath ==
    [][(DirectiveReturns /\ dcls \in {"Image", "Audio"}) =>
          Appended.src = FirstNonBlank(BodyLines)]_vars

\* sub occurs in s
Contains(s, sub) ==
    \E i \in 1..(Len(s) - Len(sub) + 1) : SubSeq(s, i, i + Len(sub) - 1) = sub

\* the last line before line i that ends a body; 0 if there is none
RECURSIVE Opener(_)
Opener(i) == IF i <= 1 THEN 0 ELSE IF Terminates(stream[i - 1]) THEN i - 1 ELSE Opener(i - 1)

\* line i of the report lies in the body of a javascript or plotly directive
InScript(i, j) ==
    /\ j > 0
    /\ StartsWith(stream[j], "--")
    /\ Keyword(stream[j]) \in {"javascript", "plotly"}
    /\ \E k \in 1..(j - 1) : IsMarker(stream[k])
ScriptBody(i) == ~Terminates(stream[i]) /\ InScript(i, Opener(i))

\* line i is not blank and its text occurs in the report only in such bodies
ScriptOnly(i) ==
    /\ ScriptBody(i)
    /\ Strip(stream[i]) # ""
    /\ \A j \in 1..Len(stream) : stream[j] = stream[i] => ScriptBody(j)

\* the placeholder container of a plot
Placeholder(id) == "<div class=\"row\" id=\"" \o id \o "\"></div>"

\* C14: render() of a javascript element is the empty string and render() of a plotly
\* element is only its placeholder div; no body line of either directive, as written
\* or data-substituted, occurs in what Document.render() returns.
C14_NoScriptInMarkup ==
    /\ \A i \in 1..Len(Produced) :
          /\ Produced[i].cls = "Javascript" => ElementRender(Produced[i]) = Ok(Some(""))
          /\ Produced[i].cls = "Plotly" =>
                ElementRender(Produced[i]) = Ok(Some(Placeholder(Produced[i].id)))
    /\ pc = "saved" =>
          \A i \in 1..Len(stream) :
              ScriptOnly(i) =>
                 /\ ~Contains(html[1].content, stream[i])
                 /\ ~Contains(html[1].content, DataSubstituted(stream[i]))

\* C14's case: a report with a javascript element and a plotly directive that has a
\* body has been rendered
C14_ScriptsRendered ==
    /\ pc = "saved"
    /\ \E i \in 1..Len(ElementsOf(content)) : ElementsOf(content)[i].cls = "Javascript"
    /\ \E i \in 1..Len(stream) : ScriptOnly(i) /\ Keyword(stream[Opener(i)]) = "plotly"

\* C15: any two plotly directives parsed in one document get distinct container
\* identifiers, however close together in time they are parsed.
C15_DistinctContainers ==
    \A i \in 1..Len(Produced) : \A j \in (i + 1)..Len(Produced) :
        (Produced[i].cls = "Plotly" /\ Produced[j].cls = "Plotly") =>
            Produced[i].id # Produced[j].id

(***************************************************************************)
(* Properties of the resolver's errors                                     *)
(***************************************************************************)
\* l holds "@data." followed by a character of a reference
HasReference(l) ==
    \E i \in 1..(Len(l) - 6) : SubSeq(l, i, i + 5) = "@data." /\ CharAt(l, i + 6) \in RefChars

\* l refers to a name that the table does not hold
RefersToUnknown(l) == Contains(l, "@data.q")

\* C16: with no array table bound, or with a referenced name that is not a key of the
\* table, replace_data on a line that holds a reference raises and returns no line; a
\* line without a reference is returned unchanged, table or no table.
C16_UnresolvableRaises ==
    AfterReplaceData =>
        /\ (HasReference(line) /\ (data.none \/ RefersToUnknown(line))) =>
              (pc = "error" /\ err = "ValueError" /\ new_line = None)
        /\ ~HasReference(line) => (pc = "replaced" /\ new_line = Some(line))

\* C16's case: replace_data has raised at the unknown name of a line whose first
\* reference resolves
C16_UnknownNameRaised ==
    /\ pc = "error" /\ err = "ValueError"
    /\ ~data.none /\ line = "y = @data.x + @data.q\n"

(***************************************************************************)
(* Properties of the scan of a block                                       *)
(***************************************************************************)
\* the directive parser has taken a body line: a consumed line that is neither blank
\* nor a declared attribute
BodyStarted ==
    \E i \in (marker + 1)..(pos - 1) : stream[i] # "\n" /\ ~Declared(dcls, stream[i])

\* C17: attribute lines are recognised only at the start of a block: once a directive
\* parser has taken its first body line, a later line `<declared-name>=...` changes no
\* attribute value and is kept as body content (for code and alert, appended as is).
C17_AttributesOnlyAtStart ==
    [][(/\ pc = "directive" /\ BodyStarted
        /\ Declared(dcls, line) /\ pc' # "error") =>
          /\ attrs' = attrs
          /\ pos' = pos + 1
          /\ dcls \in {"CodeSnippet", "Alert"} => body' = Append(body, line)]_vars

(***************************************************************************)
(* Properties of the slices with every field empty                         *)
(***************************************************************************)
\* C18: a slice op whose fields are all empty, [:] and [::], selects the whole
\* array: get_data returns the array unchanged and does not raise.
C18_EmptySliceIsWhole ==
    \A n \in {"x", "m"}, op \in {"[:]", "[::]"} :
        (data = Table /\ line = LineOf(n \o op) /\ AfterGetData) =>
            (pc = "got" /\ arr = Some(TheTable[n]))

(***************************************************************************)
(* Properties of the lines outside directives                              *)
(***************************************************************************)
\* Section.parse is at a line that is neither blank nor a marker, outside any directive
StrayInSection ==
    pc = "section" /\ line \notin {"", "\n"} /\ ~StartsWith(line, "--") /\ ~IsMarker(line)

\* Document.parse is before the first section marker, at a line that sets neither
\* accordion nor template
StrayInPrelude ==
    /\ pc = "doc" /\ prelude /\ line # "" /\ ~IsMarker(line)
    /\ ~StartsWith(line, "accordion=") /\ ~StartsWith(line, "template=")

\* the step consumes the lookahead line and nothing else happens to the document
OnlyConsumed ==
    /\ pos' = pos + 1 /\ pc' = pc /\ err' = err
    /\ cur' = cur /\ content' = content /\ js' = js
    /\ accordion' = accordion /\ template' = template /\ prelude' = prelude

\* C19: inside a section, a line that is neither blank nor a marker and lies outside
\* every directive body is consumed by Section.parse without error and gives no
\* element; before the first section marker every line (directive markers included)
\* other than accordion= / template= is consumed by Document.parse without effect.
C19_StrayLinesSkipped ==
    [][(StrayInSection \/ StrayInPrelude) => OnlyConsumed]_vars

\* C19's case: a report with a directive marker before its first section and a line
\* of text right after the section marker has been parsed to one empty section
C19_StraySkipped ==
    /\ pc = "done"
    /\ Len(stream) >= 3
    /\ StartsWith(stream[1], "--") /\ IsMarker(stream[2]) /\ stream[3] = "a\n"
    /\ Len(content) = 1 /\ content[1].content = <<>>

(***************************************************************************)
(* Properties of the termination rule                                      *)
(***************************************************************************)
\* C20: parse_gen on a lookahead line that ends a body ("", or a line that starts
\* with "[" or "--") returns that line with the flag set, reads nothing from the
\* stream and changes no attribute value; applied again to what it returned it
\* gives the same.
C20_TerminationIdempotent ==
    (pc = "directive" /\ Terminates(line)) =>
        /\ Gen = [line |-> line, brk |-> TRUE, pos |-> pos, attrs |-> attrs]
        /\ parse_gen(dcls, Gen.line, stream, Gen.pos, Gen.attrs) = Gen

\* C20's case: a directive parser that has taken body lines is at a directive marker
\* with lines left in the stream
C20_AtTerminator ==
    /\ pc = "directive" /\ StartsWith(line, "--")
    /\ Len(body) > 0 /\ pos < Len(stream)

(***************************************************************************)
(* Properties of the figures                                               *)
(***************************************************************************)
\* C22: any two pyplot directives parsed in one document get distinct image paths, so
\* the image saved for a later figure never overwrites the one embedded for an
\* earlier figure, however close together in time the two are parsed.
C22_DistinctFigurePaths ==
    \A i \in 1..Len(Produced) : \A j \in (i + 1)..Len(Produced) :
        (Produced[i].cls = "Pyplot" /\ Produced[j].cls = "Pyplot") =>
            Produced[i].src # Produced[j].src

(***************************************************************************)
(* Termination of the parse                                                *)
(***************************************************************************)
\* C21: Document.parse terminates on every finite line stream: every pass of the
\* Document, Section and directive loops leaves its loop (or enters the next parser)
\* or reads at least one new line, never going back in the stream; the parse ends,
\* and when it ends without error the lookahead is the end of the stream, every line
\* having been read once, by the one parser that was running.
C21_ParseTerminates ==
    /\ [][/\ pos' >= pos /\ pos' <= Len(stream) + 1
          /\ (pos' > pos \/ pc' # pc)]_vars
    /\ <>(pc \in {"done", "error"})
    /\ [](pos >= 1 => line = (IF pos <= Len(stream) THEN stream[pos] ELSE ""))
    /\ [](pc = "done" => (line = "" /\ pos = Len(stream) + 1))

\* C21's case: a report with a section and a directive that has a body has been
\* parsed to its end
C21_ParsedToEnd ==
    /\ pc = "done" /\ line = "" /\ pos = Len(stream) + 1
    /\ Len(stream) >= 3
    /\ Len(content) >= 1 /\ Len(content[1].content) >= 1

====
